---- MODULE Spec2Model ----
(***************************************************************************)
(* libsimdpp/01-start.cpp: main() adds two float[8] arrays lane by lane    *)
(* through simdpp::float32<8> (load_u, operator+, store_u) and prints the  *)
(* result on std::cout.                                                    *)
(*                                                                         *)
(* Floats are modelled by the integer-valued finite binary32 numbers; an   *)
(* addition rounds its exact sum to a 24-bit significand, nearest, ties to *)
(* even.  float32<8> is carried by N \div W native registers of W lanes,   *)
(* W fixed by the target architecture of the build.                        *)
(***************************************************************************)
EXTENDS Integers, Sequences, FiniteSets, TLC

VARIABLES
    pc,         \* statement of main() about to execute
    W,          \* lanes of one native register of the build
    in_a, in_b, \* the brace-enclosed initialisers of a and b
    a, b, c,    \* the three stack arrays
    vec_a, vec_b, vec_c,  \* the float32<8> values, defined lane by lane
    g,          \* native register the current load/add/store is at
    i,          \* the print loop's index
    out,        \* characters written to std::cout
    exit_code,  \* main's return value, NoExit while running
    writes,     \* history: number of assignments to each c[k]
    reads,      \* history: number of reads of each c[k]
    touched     \* history: indices accessed in a, b and c

vars == <<pc, W, in_a, in_b, a, b, c, vec_a, vec_b, vec_c, g, i, out,
          exit_code, writes, reads, touched>>

----------------------------------------------------------------------------
(* Constants of the program *)

N == 8
Idx == 0 .. (N - 1)
Widths == {1, 2, 4, 8}
Precision == 24
StreamPrecision == 6
MaxSmall == 1

NoExit == -1
NotDeclared == [k \in {} |-> 0]

LiteralA == [k \in Idx |-> k + 1]
LiteralB == [k \in Idx |-> N - k]

RECURSIVE Pow(_, _)
Pow(base, e) == IF e = 0 THEN 1 ELSE base * Pow(base, e - 1)

Big == Pow(2, Precision)

----------------------------------------------------------------------------
(* binary32 addition on integer-valued floats *)

RECURSIVE UlpFrom(_, _)
UlpFrom(m, u) == IF m \div u < Big THEN u ELSE UlpFrom(m, 2 * u)

RoundMag(m) ==
    LET u == UlpFrom(m, 1)
        q == m \div u
        r == m % u
    IN  IF 2 * r < u THEN q * u
        ELSE IF 2 * r > u THEN (q + 1) * u
        ELSE IF q % 2 = 0 THEN q * u ELSE (q + 1) * u

RoundToFloat(n) == IF n < 0 THEN -RoundMag(-n) ELSE RoundMag(n)

fsub(x, y) == RoundToFloat(x - y)

fadd(x, y) == RoundToFloat(x + y)

----------------------------------------------------------------------------
(* operator<<(float): %g with the stream's default precision of 6 *)

DigitChar(d) == <<"0", "1", "2", "3", "4", "5", "6", "7", "8", "9">>[d + 1]

RECURSIVE Digits(_)
Digits(m) == IF m < 10 THEN <<DigitChar(m)>>
             ELSE Digits(m \div 10) \o <<DigitChar(m % 10)>>

RECURSIVE StripZeros(_)
StripZeros(s) == IF s # <<>> /\ s[Len(s)] = "0"
                 THEN StripZeros(SubSeq(s, 1, Len(s) - 1)) ELSE s

Scientific(m) ==
    LET nd    == Len(Digits(m))
        scale == Pow(10, nd - StreamPrecision)
        q0    == m \div scale
        r     == m % scale
        q1    == IF 2 * r > scale \/ (2 * r = scale /\ q0 % 2 = 1)
                 THEN q0 + 1 ELSE q0
        carry == q1 = Pow(10, StreamPrecision)
        q     == IF carry THEN q1 \div 10 ELSE q1
        e     == IF carry THEN nd ELSE nd - 1
        ds    == Digits(q)
        frac  == StripZeros(SubSeq(ds, 2, Len(ds)))
    IN  <<ds[1]>> \o (IF frac = <<>> THEN <<>> ELSE <<".">> \o frac)
        \o <<"e", "+">> \o (IF e < 10 THEN <<"0">> ELSE <<>>) \o Digits(e)

FormatMag(m) == IF m < Pow(10, StreamPrecision) THEN Digits(m) ELSE Scientific(m)

FormatFloat(x) == IF x < 0 THEN <<"-">> \o FormatMag(-x) ELSE FormatMag(x)

Prefix == <<"R", "e", "s", "u", "l", "t", ":", " ">>
NoSpace == <<>>

Space == <<" ">>
Endl == <<"\n">>

----------------------------------------------------------------------------
(* Inputs and uninitialised storage *)

GarbageValues == {0, 9}
StackGarbage == {[k \in Idx |-> v] : v \in GarbageValues}

InputValues ==
    {RoundToFloat(n) : n \in (-MaxSmall .. MaxSmall) \cup {Big - 1, Big, Big + 2, -Big}}

Replace(vec, k, v) == [l \in Idx |-> IF l = k THEN v ELSE vec[l]]

InputVectors ==
    {LiteralA, LiteralB} \cup {Replace(LiteralA, k, v) : k \in Idx, v \in InputValues}

----------------------------------------------------------------------------
(* float32<8> as N \div W native registers *)

NumGroups == N \div W

LanesShort(grp) == (grp * W) .. (grp * W + W - 2)

LanesOverlap(grp) == (IF grp = 0 THEN 0 ELSE grp * W - 1) .. (grp * W + W - 1)

Lanes(grp) == (grp * W) .. (grp * W + W - 1)

LastGroupFirst(grp) == grp = 0

LastGroup(grp) == grp = NumGroups - 1

LoadGroupReversed(vec, mem, grp) ==
    [l \in (DOMAIN vec) \cup Lanes(grp) |->
        IF l \in Lanes(grp) THEN mem[grp * W + (grp * W + W - 1 - l)] ELSE vec[l]]

LoadGroup(vec, mem, grp) ==
    [l \in (DOMAIN vec) \cup Lanes(grp) |-> IF l \in Lanes(grp) THEN mem[l] ELSE vec[l]]

AddGroup(va, vb, vc, grp) ==
    [l \in (DOMAIN vc) \cup Lanes(grp) |->
        IF l \in Lanes(grp) THEN fadd(va[l], vb[l]) ELSE vc[l]]

StoreGroup(mem, vec, grp) ==
    [l \in DOMAIN mem |-> IF l \in Lanes(grp) THEN vec[l] ELSE mem[l]]

Advance(next) ==
    IF LastGroup(g) THEN pc' = next /\ g' = 0 ELSE pc' = pc /\ g' = g + 1

ReadArray(mem, k) == IF k \in DOMAIN mem THEN {mem[k]} ELSE GarbageValues

LoopCondInclusive == i <= N

LoopCond == i < N

----------------------------------------------------------------------------
(* main() *)

Start ==
    /\ pc = "init_a"
    /\ W \in Widths
    /\ a = NotDeclared /\ b = NotDeclared /\ c = NotDeclared
    /\ vec_a = NotDeclared /\ vec_b = NotDeclared /\ vec_c = NotDeclared
    /\ g = 0 /\ i = 0
    /\ out = <<>>
    /\ exit_code = NoExit
    /\ writes = [k \in Idx |-> 0]
    /\ reads = [k \in Idx |-> 0]
    /\ touched = [a |-> {}, b |-> {}, c |-> {}]

Init == Start /\ in_a = LiteralA /\ in_b = LiteralB

InitGen == Start /\ in_a \in InputVectors /\ in_b \in InputVectors

InitA ==
    /\ pc = "init_a"
    /\ a' = in_a
    /\ pc' = "init_b"
    /\ UNCHANGED <<W, in_a, in_b, b, c, vec_a, vec_b, vec_c, g, i, out,
                   exit_code, writes, reads, touched>>

InitB ==
    /\ pc = "init_b"
    /\ b' = in_b
    /\ pc' = "decl_c"
    /\ UNCHANGED <<W, in_a, in_b, a, c, vec_a, vec_b, vec_c, g, i, out,
                   exit_code, writes, reads, touched>>

DeclC ==
    /\ pc = "decl_c"
    /\ c' \in StackGarbage
    /\ pc' = "load_a"
    /\ UNCHANGED <<W, in_a, in_b, a, b, vec_a, vec_b, vec_c, g, i, out,
                   exit_code, writes, reads, touched>>

LoadA ==
    /\ pc = "load_a"
    /\ vec_a' = LoadGroup(vec_a, a, g)
    /\ touched' = [touched EXCEPT !.a = @ \cup Lanes(g)]
    /\ Advance("load_b")
    /\ UNCHANGED <<W, in_a, in_b, a, b, c, vec_b, vec_c, i, out,
                   exit_code, writes, reads>>

LoadB ==
    /\ pc = "load_b"
    /\ vec_b' = LoadGroup(vec_b, b, g)
    /\ touched' = [touched EXCEPT !.b = @ \cup Lanes(g)]
    /\ Advance("add")
    /\ UNCHANGED <<W, in_a, in_b, a, b, c, vec_a, vec_c, i, out,
                   exit_code, writes, reads>>

Add ==
    /\ pc = "add"
    /\ vec_c' = AddGroup(vec_a, vec_b, vec_c, g)
    /\ Advance("store")
    /\ UNCHANGED <<W, in_a, in_b, a, b, c, vec_a, vec_b, i, out,
                   exit_code, writes, reads, touched>>

StoreIntoA ==
    /\ pc = "store"
    /\ a' = StoreGroup(a, vec_c, g)
    /\ writes' = [k \in Idx |-> IF k \in Lanes(g) THEN writes[k] + 1 ELSE writes[k]]
    /\ touched' = [touched EXCEPT !.a = @ \cup Lanes(g)]
    /\ Advance("print_prefix")
    /\ UNCHANGED <<W, in_a, in_b, b, c, vec_a, vec_b, vec_c, i, out,
                   exit_code, reads>>

Store ==
    /\ pc = "store"
    /\ c' = StoreGroup(c, vec_c, g)
    /\ writes' = [k \in Idx |-> IF k \in Lanes(g) THEN writes[k] + 1 ELSE writes[k]]
    /\ touched' = [touched EXCEPT !.c = @ \cup Lanes(g)]
    /\ Advance("print_prefix")
    /\ UNCHANGED <<W, in_a, in_b, a, b, vec_a, vec_b, vec_c, i, out,
                   exit_code, reads>>

PrintPrefix ==
    /\ pc = "print_prefix"
    /\ out' = out \o Prefix
    /\ i' = 0
    /\ pc' = "loop"
    /\ UNCHANGED <<W, in_a, in_b, a, b, c, vec_a, vec_b, vec_c, g,
                   exit_code, writes, reads, touched>>

PrintElem ==
    /\ pc = "loop"
    /\ LoopCond
    /\ \E v \in ReadArray(c, i) : out' = out \o FormatFloat(v) \o Space
    /\ reads' = [k \in Idx |-> IF k = i THEN reads[k] + 1 ELSE reads[k]]
    /\ touched' = [touched EXCEPT !.c = @ \cup {i}]
    /\ i' = i + 1
    /\ UNCHANGED <<pc, W, in_a, in_b, a, b, c, vec_a, vec_b, vec_c, g,
                   exit_code, writes>>

LoopExit ==
    /\ pc = "loop"
    /\ ~LoopCond
    /\ pc' = "endl"
    /\ UNCHANGED <<W, in_a, in_b, a, b, c, vec_a, vec_b, vec_c, g, i, out,
                   exit_code, writes, reads, touched>>

PrintEndl ==
    /\ pc = "endl"
    /\ out' = out \o Endl
    /\ pc' = "return"
    /\ UNCHANGED <<W, in_a, in_b, a, b, c, vec_a, vec_b, vec_c, g, i,
                   exit_code, writes, reads, touched>>

ReturnFailure ==
    /\ pc = "return"
    /\ exit_code' = 1
    /\ pc' = "done"
    /\ UNCHANGED <<W, in_a, in_b, a, b, c, vec_a, vec_b, vec_c, g, i, out,
                   writes, reads, touched>>

Return ==
    /\ pc = "return"
    /\ exit_code' = 0
    /\ pc' = "done"
    /\ UNCHANGED <<W, in_a, in_b, a, b, c, vec_a, vec_b, vec_c, g, i, out,
                   writes, reads, touched>>

Next ==
    \/ InitA
    \/ InitB
    \/ DeclC
    \/ LoadA
    \/ LoadB
    \/ Add
    \/ Store
    \/ PrintPrefix
    \/ PrintElem
    \/ LoopExit
    \/ PrintEndl
    \/ Return

Spec == Init /\ [][Next]_vars

SpecGen == InitGen /\ [][Next]_vars

FairSpec == Spec /\ WF_vars(Next)

----------------------------------------------------------------------------
(* The adder and the reporter as functions of their inputs *)

RECURSIVE LoadUpTo(_, _)
LoadUpTo(mem, grp) ==
    IF grp < 0 THEN NotDeclared ELSE LoadGroup(LoadUpTo(mem, grp - 1), mem, grp)

RECURSIVE AddUpTo(_, _, _)
AddUpTo(va, vb, grp) ==
    IF grp < 0 THEN NotDeclared ELSE AddGroup(va, vb, AddUpTo(va, vb, grp - 1), grp)

RECURSIVE StoreUpTo(_, _, _)
StoreUpTo(mem, vec, grp) ==
    IF grp < 0 THEN mem ELSE StoreGroup(StoreUpTo(mem, vec, grp - 1), vec, grp)

Adder(x, y, mem) ==
    LET last == NumGroups - 1
    IN  StoreUpTo(mem, AddUpTo(LoadUpTo(x, last), LoadUpTo(y, last), last), last)

RECURSIVE PrintUpTo(_, _)
PrintUpTo(mem, k) ==
    IF k < 0 THEN <<>> ELSE PrintUpTo(mem, k - 1) \o FormatFloat(mem[k]) \o Space

Reporter(mem) == Prefix \o PrintUpTo(mem, N - 1) \o Endl

----------------------------------------------------------------------------
(* Properties *)

Stored == pc \in {"print_prefix", "loop", "endl", "return", "done"}
Reported == pc \in {"return", "done"}
AllIdx(f, n) == \A k \in Idx : f[k] = n
IsPrefix(s, t) == Len(s) <= Len(t) /\ s = SubSeq(t, 1, Len(s))
CountChar(s, ch) == Cardinality({k \in 1 .. Len(s) : s[k] = ch})

RECURSIVE ScalarLoop(_, _, _)
ScalarLoop(x, y, k) ==
    IF k < 0 THEN NotDeclared
    ELSE [l \in 0 .. k |-> IF l = k THEN RoundToFloat(x[l] + y[l])
                           ELSE ScalarLoop(x, y, k - 1)[l]]

Nines == [k \in Idx |-> 9]

ExpectedLiteral ==
    <<"R", "e", "s", "u", "l", "t", ":", " ",
      "9", " ", "9", " ", "9", " ", "9", " ",
      "9", " ", "9", " ", "9", " ", "9", " ", "\n">>

\* C1: for the literal inputs A = <1..8> and B = <8..1>, once store_u has
\* completed the output array c is <9,9,9,9,9,9,9,9>, whatever c held before.
C1_LiteralSum == Stored => (DOMAIN c = Idx /\ \A k \in Idx : c[k] = 9)

C1_Witness ==
    /\ pc = "print_prefix" /\ in_a = LiteralA /\ in_b = LiteralB
    /\ c = Nines /\ AllIdx(writes, 1) /\ W = 4

\* C2: for any two length-8 inputs with finite entries, load_u / + / store_u
\* leaves an output of length 8 whose lane k is the binary32 sum of lane k of
\* a and lane k of b: no lane is shifted, swapped or dropped.
C2_Elementwise ==
    Stored => /\ DOMAIN c = Idx
              /\ Cardinality(DOMAIN c) = N
              /\ \A k \in Idx : c[k] = fadd(in_a[k], in_b[k])

C2_Witness ==
    /\ pc = "done" /\ W = 4
    /\ in_a = Replace(LiteralA, 3, Big) /\ in_b = LiteralB
    /\ c[3] = Big + 4 /\ c[2] = 9 /\ c[4] = 9

\* C3: the adder is commutative: the run on (a, b) leaves the output array and
\* the printed text that the adder and the reporter give on (b, a).
C3_Commutative ==
    /\ Stored => c = Adder(in_b, in_a, c)
    /\ Reported => out = Reporter(Adder(in_b, in_a, c))

C3_Witness ==
    /\ pc = "done" /\ W = 2
    /\ in_a = Replace(LiteralA, 5, Big + 2) /\ in_b = Replace(LiteralA, 5, -1)
    /\ in_a # in_b
    /\ c[5] = Big

\* C4: stdout of a complete run is the prefix "Result: ", then c[0] .. c[7] in
\* index order, each followed by exactly one space, then one newline, and
\* nothing else: one line of 8 numeric fields, and for the literal inputs
\* "Result: 9 9 9 9 9 9 9 9 " and a newline. While running, what has been
\* written is a prefix of that text.
C4_Output ==
    LET text == <<"R", "e", "s", "u", "l", "t", ":", " ">>
                \o FormatFloat(c[0]) \o <<" ">> \o FormatFloat(c[1]) \o <<" ">>
                \o FormatFloat(c[2]) \o <<" ">> \o FormatFloat(c[3]) \o <<" ">>
                \o FormatFloat(c[4]) \o <<" ">> \o FormatFloat(c[5]) \o <<" ">>
                \o FormatFloat(c[6]) \o <<" ">> \o FormatFloat(c[7]) \o <<" ">>
                \o <<"\n">>
    IN  /\ ~Stored => out = <<>>
        /\ Stored => IsPrefix(out, text)
        /\ Reported => /\ out = text
                       /\ CountChar(out, "\n") = 1
                       /\ out[Len(out)] = "\n"
                       /\ CountChar(out, " ") = N + 1
        /\ (Reported /\ in_a = LiteralA /\ in_b = LiteralB) => out = ExpectedLiteral

C4_Witness ==
    /\ pc = "done" /\ in_a = LiteralA /\ in_b = LiteralB
    /\ out = ExpectedLiteral

\* C5: every run terminates; it stops only in the state reached by return 0,
\* after the newline has been written; no other exit code is ever set.
C5_Terminates ==
    /\ <>(pc = "done")
    /\ [](pc = "done" => (exit_code = 0 /\ out # <<>> /\ out[Len(out)] = "\n"))
    /\ []((~ENABLED Next) => pc = "done")
    /\ [](exit_code \in {NoExit, 0})

C5_Witness == pc = "done" /\ exit_code = 0 /\ out = ExpectedLiteral /\ i = N

\* C6: a and b are immutable after construction: in every state after line 8
\* a holds <1..8>, and in every state after line 9 b holds <8..1>, through
\* load, add, store and every print step.
C6_InputsImmutable ==
    /\ pc # "init_a" => a = LiteralA
    /\ pc \notin {"init_a", "init_b"} => b = LiteralB

C6_Witness ==
    /\ pc = "done" /\ a = LiteralA /\ b = LiteralB
    /\ AllIdx(writes, 1) /\ AllIdx(reads, 1)

\* C7: each c[k] is assigned exactly once (by store_u), keeps the stored lane
\* afterwards, and is read exactly once (by the print loop's iteration k).
C7_WriteOnceReadOnce ==
    \A k \in Idx :
        /\ writes[k] <= 1 /\ reads[k] <= 1
        /\ writes[k] = 1 => (k \in DOMAIN vec_c /\ c[k] = vec_c[k])
        /\ Stored => writes[k] = 1
        /\ pc = "loop" => reads[k] = (IF k < i THEN 1 ELSE 0)
        /\ pc \in {"endl", "return", "done"} => reads[k] = 1

C7_Witness ==
    /\ pc = "done" /\ W = 2
    /\ AllIdx(writes, 1) /\ AllIdx(reads, 1) /\ c = vec_c

\* C8: input provider, then adder, then reporter: a load starts only after a
\* and b are both initialised, the add after both loads are complete, the store
\* after the add is complete, and nothing is read from c or printed before
\* store_u has written all 8 elements.
C8_Order ==
    /\ (DOMAIN vec_a # {} \/ DOMAIN vec_b # {} \/ touched.a # {} \/ touched.b # {})
           => (a = in_a /\ b = in_b)
    /\ DOMAIN vec_b # {} => DOMAIN vec_a = Idx
    /\ DOMAIN vec_c # {} => (DOMAIN vec_a = Idx /\ DOMAIN vec_b = Idx)
    /\ (\E k \in Idx : writes[k] > 0) => DOMAIN vec_c = Idx
    /\ (out # <<>> \/ \E k \in Idx : reads[k] > 0) => AllIdx(writes, 1)
    /\ \A k \in Idx : reads[k] > 0 => writes[k] > 0

C8_Witness ==
    /\ pc = "loop" /\ i = 1 /\ W = 4
    /\ reads[0] = 1 /\ AllIdx(writes, 1)
    /\ out = <<"R", "e", "s", "u", "l", "t", ":", " ", "9", " ">>

\* C9: the adder's result does not depend on the lane-group width: for W in
\* {1, 2, 4, 8} the groups partition 0..7 (each index in exactly one group) and
\* the stored c equals the plain scalar element-wise loop over the inputs.
C9_WidthIndependent ==
    /\ W \in Widths
    /\ NumGroups * W = N
    /\ \A l \in Idx : Cardinality({grp \in 0 .. NumGroups - 1 : l \in Lanes(grp)}) = 1
    /\ UNION {Lanes(grp) : grp \in 0 .. NumGroups - 1} = Idx
    /\ Stored => c = ScalarLoop(in_a, in_b, N - 1)

C9_Witness ==
    /\ pc = "done" /\ W = 1
    /\ in_a = Replace(LiteralA, 7, Big) /\ in_b = Replace(LiteralA, 0, Big - 1)
    /\ c = ScalarLoop(in_a, in_b, N - 1)
    /\ c[0] = Big /\ c[7] = Big + 8

\* C10: once declared the arrays have exactly 8 elements and every access is
\* in bounds: loads and store touch exactly 0..7, the print loop reads c[i]
\* for i = 0, 1, .., 7 in increasing order and leaves with i = 8.
C10_InBounds ==
    /\ pc # "init_a" => (DOMAIN a = Idx /\ Cardinality(DOMAIN a) = 8)
    /\ pc \notin {"init_a", "init_b"} => (DOMAIN b = Idx /\ Cardinality(DOMAIN b) = 8)
    /\ pc \notin {"init_a", "init_b", "decl_c"}
           => (DOMAIN c = Idx /\ Cardinality(DOMAIN c) = 8)
    /\ touched.a \subseteq Idx /\ touched.b \subseteq Idx /\ touched.c \subseteq Idx
    /\ i \in 0 .. 8
    /\ pc = "loop" => {k \in Idx : reads[k] > 0} = 0 .. (i - 1)
    /\ pc \in {"load_b", "add", "store"} => touched.a = 0 .. 7
    /\ pc \in {"add", "store"} => touched.b = 0 .. 7
    /\ Stored => touched.c = 0 .. 7
    /\ pc \in {"endl", "return", "done"} => (i = 8 /\ AllIdx(reads, 1))

C10_Witness ==
    /\ pc = "endl" /\ i = 8 /\ W = 2
    /\ touched = [a |-> 0 .. 7, b |-> 0 .. 7, c |-> 0 .. 7]
    /\ AllIdx(reads, 1)

====
